---------------------------- MODULE Spec2Model ----------------------------
(***************************************************************************)
(* TripSecretary migration scripts.                                        *)
(*                                                                         *)
(*   scripts/refactor_phase5.py            Region Excision Engine          *)
(*   scripts/migrate_app_js_to_ts.py       Classifier/Renamer              *)
(*   scripts/remove_js_import_extensions.py  Reference Rewriter            *)
(*                                                                         *)
(* Text is modelled as a sequence of tokens, each token standing for a     *)
(* literal piece of text (one character for the JSX signatures, a keyword  *)
(* or a marker elsewhere).  A file split at '\n' is a sequence of lines,   *)
(* a line a sequence of tokens.  Python's 0-based indices are kept: the    *)
(* line with Python index k is lines[k + 1].                               *)
(***************************************************************************)
EXTENDS Integers, Sequences, FiniteSets, TLC

VARIABLES
    \* refactor_phase5.py
    lines,          \* content.split('\n')
    remove_ranges,  \* list of (start, end) tuples
    new_lines,      \* the retained lines
    i,              \* index of the retain/drop loop
    pc,             \* position in the script
    disk,           \* the lines of HongkongTravelInfoScreen.tsx on disk
    \* migrate_app_js_to_ts.py
    fs,             \* the files under APP_ROOT: path -> content
    fs0,            \* the tree main() started from
    queue,          \* gather_js_files()
    idx,            \* position of main's for loop in queue
    conversions,
    skipped,
    dry_run,
    app_root,       \* whether APP_ROOT exists
    results,        \* what convert_file returned, call by call
    mpc,            \* position in main()
    \* remove_js_import_extensions.py
    ftext,          \* the content of the file process_file is run on
    ftext0,         \* its content before the first run
    runs,           \* number of process_file calls so far
    ret,            \* what the last call returned
    writes          \* for each call, whether it wrote the file

exVars == <<lines, remove_ranges, new_lines, i, pc, disk>>
rnVars == <<fs, fs0, queue, idx, conversions, skipped, dry_run, app_root, results,
           mpc>>
rwVars == <<ftext, ftext0, runs, ret, writes>>
vars == <<lines, remove_ranges, new_lines, i, pc, disk,
          fs, fs0, queue, idx, conversions, skipped, dry_run, app_root, results,
          mpc,
          ftext, ftext0, runs, ret, writes>>

\* A component that is not run by the specification at hand.
ExIdle ==
    /\ lines = <<>> /\ remove_ranges = <<>> /\ new_lines = <<>>
    /\ i = 0 /\ pc = "idle" /\ disk = <<>>

RnIdle ==
    /\ fs = <<>> /\ fs0 = <<>> /\ queue = <<>> /\ idx = 0
    /\ conversions = 0 /\ skipped = 0 /\ dry_run = FALSE /\ app_root = FALSE
    /\ results = <<>> /\ mpc = "idle"

RwIdle ==
    /\ ftext = <<>> /\ ftext0 = <<>> /\ runs = 0 /\ ret = FALSE
    /\ writes = <<>>

---------------------------------------------------------------------------
(* Bounds *)

MaxLines == 5        \* lines of the file in the range specification
MaxRanges == 2       \* located ranges in the range specification
MaxScanLines == 5    \* lines of the file in the scan specifications
MaxStems == 1        \* file names per directory in the renamer's tree
MaxContentLen == 4   \* characters of the file the classifier is run on
MaxPathLen == 3      \* tokens of a reference's path in the rewriter's file
MaxStatements == 1   \* statements of the rewriter's file

---------------------------------------------------------------------------
(* Text helpers *)

\* All sequences over S of length lo..hi.
SeqsOf(S, lo, hi) == UNION {[1..n -> S] : n \in lo..hi}

\* `pat in text` for a literal pat: pat occurs as a contiguous piece of text.
Contains(text, pat) ==
    \E o \in 0..(Len(text) - Len(pat)) :
        \A k \in 1..Len(pat) : text[o + k] = pat[k]

\* ''.join(lines[a:b]) for 0 <= a, b <= len(lines); empty when b <= a.
RECURSIVE Join(_, _, _)
Join(ls, a, b) ==
    IF b <= a THEN <<>> ELSE Join(ls, a, b - 1) \o ls[b]

\* line.count(tok)
Count(line, tok) == Cardinality({k \in 1..Len(line) : line[k] = tok})

\* The whitespace tokens.
Whitespace == {" ", "\n", "\t"}

\* str.lstrip(), str.rstrip(), str.strip(): leading and trailing whitespace
\* removed.
RECURSIVE LStrip(_)
LStrip(line) ==
    IF line /= <<>> /\ Head(line) \in Whitespace THEN LStrip(Tail(line)) ELSE line

RECURSIVE RStrip(_)
RStrip(line) ==
    IF line /= <<>> /\ line[Len(line)] \in Whitespace
    THEN RStrip(SubSeq(line, 1, Len(line) - 1)) ELSE line

Strip(line) == RStrip(LStrip(line))

---------------------------------------------------------------------------
(* refactor_phase5.py: the region scans *)

\* for i in range(len(lines)): if <marker> in lines[i]: ... break
\* The Python index of the first line containing marker, -1 when none.
RECURSIVE FirstFrom(_, _, _)
FirstFrom(ls, marker, k) ==
    IF k >= Len(ls) THEN -1
    ELSE IF Contains(ls[k + 1], marker) THEN k
    ELSE FirstFrom(ls, marker, k + 1)

FindStart(ls, marker) == FirstFrom(ls, marker, 0)

\* Fixed-text end (focus listener, lines 33-37):
\* for j in range(i+1, len(lines)): if <endText> in lines[j]: append; break
RECURSIVE FixedEnd(_, _, _)
FixedEnd(ls, endText, j) ==
    IF j >= Len(ls) THEN -1
    ELSE IF Contains(ls[j + 1], endText) THEN j
    ELSE FixedEnd(ls, endText, j + 1)

\* The guard of a guarded end: <guard> in ''.join(lines[start:j])
GuardSatisfiedThrough(ls, start, j, guard) ==
    Contains(Join(ls, start, j + 1), guard)
GuardSatisfied(ls, start, j, guard) == Contains(Join(ls, start, j), guard)

\* Guarded fixed-text end (blur listener, cleanup, monitor, clearUserData):
\* for j in range(i+1, len(lines)):
\*     if <endText> in lines[j] and <guard> in ''.join(lines[start:j]): ...
RECURSIVE GuardedEnd(_, _, _, _, _)
GuardedEnd(ls, start, endText, guard, j) ==
    IF j >= Len(ls) THEN -1
    ELSE IF Contains(ls[j + 1], endText) /\ GuardSatisfied(ls, start, j, guard)
         THEN j
    ELSE GuardedEnd(ls, start, endText, guard, j + 1)

\* Balanced-delimiter end (handleFieldBlur, lines 138-144):
\* brace_count = 0
\* for j in range(i, len(lines)):
\*     brace_count += lines[j].count('{') - lines[j].count('}')
\*     if brace_count == 0 and j > i: append; break
BraceDelta(line) == Count(line, "{") - Count(line, "}")

\* Stops at the first line after the start that closes any brace.
RECURSIVE BalancedEndInner(_, _, _, _)
BalancedEndInner(ls, start, j, brace_count) ==
    IF j >= Len(ls) THEN -1
    ELSE IF j > start /\ Count(ls[j + 1], "}") > 0 THEN j
    ELSE BalancedEndInner(ls, start, j + 1, brace_count)

RECURSIVE BalancedEnd(_, _, _, _)
BalancedEnd(ls, start, j, brace_count) ==
    IF j >= Len(ls) THEN -1
    ELSE LET c == brace_count + BraceDelta(ls[j + 1])
         IN  IF c = 0 /\ j > start THEN j
             ELSE BalancedEnd(ls, start, j + 1, c)

\* remove_ranges.append((start, j+1)) when the end was found; nothing otherwise.
Located(ranges, start, j) ==
    IF start >= 0 /\ j >= 0 THEN Append(ranges, <<start, j + 1>>) ELSE ranges

\* The literals of the scans that are modelled.
FocusMarker == <<"// Add focus listener to reload data when returning to screen">>
FocusEnd == <<"navigation, passport, refreshFundItems]);">>

CleanupMarker == <<"// Cleanup effect (equivalent to componentWillUnmount)">>
CleanupEnd == <<"}, []);">>
CleanupGuard == <<"un", "mount">>

BlurMarker == <<"// Add ", "bl", "ur", " listener to save data when leaving the screen">>
BlurEnd == <<"}, [navigation]);">>
BlurGuard == <<"bl", "ur">>

FieldBlurLine == <<"const handleFieldBlur = async (fieldName, fieldValue) => ", "{">>

\* 1. focus listener
ScanFocus ==
    /\ pc = "focus"
    /\ LET start == FindStart(lines, FocusMarker)
           j == IF start < 0 THEN -1 ELSE FixedEnd(lines, FocusEnd, start + 1)
       IN  remove_ranges' = Located(remove_ranges, start, j)
    /\ pc' = "sort"
    /\ UNCHANGED <<lines, new_lines, i, disk>>
    /\ UNCHANGED rnVars /\ UNCHANGED rwVars

\* 2. blur listener
ScanBlur ==
    /\ pc = "blur"
    /\ LET start == FindStart(lines, BlurMarker)
           j == IF start < 0 THEN -1
                ELSE GuardedEnd(lines, start, BlurEnd, BlurGuard, start + 1)
       IN  remove_ranges' = Located(remove_ranges, start, j)
    /\ pc' = "sort"
    /\ UNCHANGED <<lines, new_lines, i, disk>>
    /\ UNCHANGED rnVars /\ UNCHANGED rwVars

\* 3. cleanup useEffect
ScanCleanup ==
    /\ pc = "cleanup"
    /\ LET start == FindStart(lines, CleanupMarker)
           j == IF start < 0 THEN -1
                ELSE GuardedEnd(lines, start, CleanupEnd, CleanupGuard, start + 1)
       IN  remove_ranges' = Located(remove_ranges, start, j)
    /\ pc' = "sort"
    /\ UNCHANGED <<lines, new_lines, i, disk>>
    /\ UNCHANGED rnVars /\ UNCHANGED rwVars

\* 10. handleFieldBlur: the start is the first line whose strip() equals the
\* declaration.
RECURSIVE FirstStripped(_, _, _)
FirstStripped(ls, decl, k) ==
    IF k >= Len(ls) THEN -1
    ELSE IF Strip(ls[k + 1]) = decl THEN k
    ELSE FirstStripped(ls, decl, k + 1)

ScanFieldBlur ==
    /\ pc = "handleFieldBlur"
    /\ LET start == FirstStripped(lines, FieldBlurLine, 0)
           j == IF start < 0 THEN -1 ELSE BalancedEnd(lines, start, start, 0)
       IN  remove_ranges' = Located(remove_ranges, start, j)
    /\ pc' = "sort"
    /\ UNCHANGED <<lines, new_lines, i, disk>>
    /\ UNCHANGED rnVars /\ UNCHANGED rwVars

---------------------------------------------------------------------------
(* refactor_phase5.py: sort, retain/drop pass, write *)

\* Python's order on (start, end) tuples.
TupleLess(a, b) == a[1] < b[1] \/ (a[1] = b[1] /\ a[2] < b[2])

RECURSIVE Insert(_, _)
Insert(sorted, r) ==
    IF sorted = <<>> THEN <<r>>
    ELSE IF TupleLess(r, Head(sorted)) THEN <<r>> \o sorted
    ELSE <<Head(sorted)>> \o Insert(Tail(sorted), r)

RECURSIVE SortRanges(_)
SortRanges(ranges) ==
    IF ranges = <<>> THEN <<>>
    ELSE Insert(SortRanges(SubSeq(ranges, 1, Len(ranges) - 1)), ranges[Len(ranges)])

\* remove_ranges.sort()
Sort ==
    /\ pc = "sort"
    /\ remove_ranges' = SortRanges(remove_ranges)
    /\ new_lines' = <<>>
    /\ i' = 0
    /\ pc' = "pass"
    /\ UNCHANGED <<lines, disk>>
    /\ UNCHANGED rnVars /\ UNCHANGED rwVars

\* if start <= i < end
CoversOpenStart(r, k) == r[1] < k /\ k < r[2]
Covers(r, k) == r[1] <= k /\ k < r[2]

\* for start, end in remove_ranges: if start <= i < end: ...; break
\* The position in ranges of the first range covering k, 0 when none.
RECURSIVE FirstCovering(_, _, _)
FirstCovering(ranges, k, n) ==
    IF n > Len(ranges) THEN 0
    ELSE IF Covers(ranges[n], k) THEN n
    ELSE FirstCovering(ranges, k, n + 1)

\* One iteration of `while i < len(lines)`.
PassStep ==
    /\ pc = "pass"
    /\ i < Len(lines)
    /\ LET n == FirstCovering(remove_ranges, i, 1)
       IN  IF n /= 0
           THEN /\ i' = remove_ranges[n][2]
                /\ new_lines' = new_lines
           ELSE /\ new_lines' = Append(new_lines, lines[i + 1])
                /\ i' = i + 1
    /\ UNCHANGED <<lines, remove_ranges, pc, disk>>
    /\ UNCHANGED rnVars /\ UNCHANGED rwVars

PassEnd ==
    /\ pc = "pass"
    /\ i >= Len(lines)
    /\ pc' = "write"
    /\ UNCHANGED <<lines, remove_ranges, new_lines, i, disk>>
    /\ UNCHANGED rnVars /\ UNCHANGED rwVars

\* f.write('\n'.join(new_lines))
Write ==
    /\ pc = "write"
    /\ disk' = new_lines
    /\ pc' = "done"
    /\ UNCHANGED <<lines, remove_ranges, new_lines, i>>
    /\ UNCHANGED rnVars /\ UNCHANGED rwVars

---------------------------------------------------------------------------
(* Specifications of refactor_phase5.py *)

\* The ranges a scan can locate in a file of n lines: every scan looks for
\* the end from the line after the start, so end >= start + 2.
RangesOf(n) == {r \in (0..n) \X (0..n) : r[1] + 2 <= r[2]}

\* content.split('\n') is never empty.
InitRanges ==
    /\ \E n \in 1..MaxLines :
         /\ lines = [k \in 1..n |-> <<ToString(k - 1)>>]
         /\ remove_ranges \in SeqsOf(RangesOf(n), 0, MaxRanges)
    /\ new_lines = <<>> /\ i = 0 /\ pc = "sort" /\ disk = lines
    /\ RnIdle /\ RwIdle

NextRanges == Sort \/ PassStep \/ PassEnd \/ Write

SpecRanges == InitRanges /\ [][NextRanges]_vars

FocusLineSet ==
    {FocusMarker, FocusEnd, FocusMarker \o FocusEnd, <<"x">>, <<>>}

InitScan(start_pc, LineSet) ==
    /\ lines \in SeqsOf(LineSet, 1, MaxScanLines)
    /\ remove_ranges = <<>> /\ new_lines = <<>> /\ i = 0
    /\ pc = start_pc /\ disk = lines
    /\ RnIdle /\ RwIdle

InitFocus == InitScan("focus", FocusLineSet)

NextFocus == ScanFocus \/ Sort \/ PassStep \/ PassEnd \/ Write

SpecFocus == InitFocus /\ [][NextFocus]_vars

BlurRegion == [marker |-> BlurMarker, endText |-> BlurEnd, guard |-> BlurGuard]
CleanupRegion ==
    [marker |-> CleanupMarker, endText |-> CleanupEnd, guard |-> CleanupGuard]

\* The lines a file around a guarded region is made of: the marker, the end
\* text, the guard, each half of the guard, the end text with the guard.
GuardedLineSet(r) ==
    {r.marker, r.endText, r.guard, <<r.guard[1]>>, <<r.guard[2]>>,
     r.endText \o r.guard}

InitGuarded ==
    \/ InitScan("blur", GuardedLineSet(BlurRegion))
    \/ InitScan("cleanup", GuardedLineSet(CleanupRegion))

NextGuarded == ScanBlur \/ ScanCleanup \/ Sort \/ PassStep \/ PassEnd \/ Write

SpecGuarded == InitGuarded /\ [][NextGuarded]_vars

BraceLineSet ==
    {<<" ">> \o FieldBlurLine, <<"x">>, <<"{">>, <<"}">>, <<"}", "{">>,
     <<"}", "}">>}

InitFieldBlur == InitScan("handleFieldBlur", BraceLineSet)

NextFieldBlur == ScanFieldBlur \/ Sort \/ PassStep \/ PassEnd \/ Write

SpecFieldBlur == InitFieldBlur /\ [][NextFieldBlur]_vars

---------------------------------------------------------------------------
(* Claims about refactor_phase5.py *)

Scanned == pc \in {"sort", "pass", "write", "done"}

\* Python index k is covered by some located range.
Covered(k) ==
    \E n \in 1..Len(remove_ranges) :
        remove_ranges[n][1] <= k /\ k < remove_ranges[n][2]

\* The lines of ls whose Python index is in S, in the order of ls.
RECURSIVE Retained(_, _, _)
Retained(ls, S, k) ==
    IF k >= Len(ls) THEN <<>>
    ELSE (IF k \in S THEN <<ls[k + 1]>> ELSE <<>>) \o Retained(ls, S, k + 1)

\* C1: once the script is done, the retained lines, and the file written, are
\* exactly the original lines whose index no located range covers, in their
\* original order (the lines of SpecRanges are pairwise distinct).
C1_RetainedExactlyUncovered ==
    pc = "done" =>
        LET keep == {k \in 0..(Len(lines) - 1) : ~Covered(k)}
        IN  /\ new_lines = Retained(lines, keep, 0)
            /\ disk = new_lines

\* Two located ranges overlap without either containing the other, a third
\* line survives, and the pass is over.
C1_Witness ==
    /\ pc = "done"
    /\ new_lines /= <<>>
    /\ \E a, b \in 1..Len(remove_ranges) :
          /\ remove_ranges[a][1] < remove_ranges[b][1]
          /\ remove_ranges[b][1] < remove_ranges[a][2]
          /\ remove_ranges[a][2] < remove_ranges[b][2]

\* The first line holding the region's marker has no later line holding its
\* end text.
UnclosedFocus ==
    \E s \in 0..(Len(lines) - 1) :
        /\ Contains(lines[s + 1], FocusMarker)
        /\ \A k \in 0..(s - 1) : ~Contains(lines[k + 1], FocusMarker)
        /\ \A j \in (s + 1)..(Len(lines) - 1) : ~Contains(lines[j + 1], FocusEnd)

\* C2: when the focus listener region starts and never ends, the script does
\* not run to completion: it never reaches the end, where the file has been
\* written back.
C2_UnclosedRegionIsFatal == UnclosedFocus => pc /= "done"

GuardedRegions == {BlurRegion, CleanupRegion}

\* The Python index of the first line holding the marker, -1 when none.
MarkerLine(marker) ==
    IF \E k \in 1..Len(lines) : Contains(lines[k], marker)
    THEN (CHOOSE k \in 1..Len(lines) :
              /\ Contains(lines[k], marker)
              /\ \A m \in 1..(k - 1) : ~Contains(lines[m], marker)) - 1
    ELSE -1

\* The text of the lines with Python indices a..b, end to end.
RECURSIVE TextOf(_, _)
TextOf(a, b) == IF b < a THEN <<>> ELSE lines[a + 1] \o TextOf(a + 1, b)

\* The candidate end lines of r after the start s: the lines holding the end
\* text with the guard somewhere in the text from s through the line upTo(j).
EndCandidates(r, s, upTo(_)) ==
    {j \in (s + 1)..(Len(lines) - 1) :
        /\ Contains(lines[j + 1], r.endText)
        /\ Contains(TextOf(s, upTo(j)), r.guard)}

Least(S) == CHOOSE x \in S : \A y \in S : x <= y

\* What a scan for r leaves in remove_ranges when the region ends at the
\* first candidate.
RangeOf(r, upTo(_)) ==
    LET s == MarkerLine(r.marker)
    IN  IF s < 0 \/ EndCandidates(r, s, upTo) = {}
        THEN <<>>
        ELSE <<<<s, Least(EndCandidates(r, s, upTo)) + 1>>>>

ThroughCandidate(j) == j
BeforeCandidate(j) == j - 1

\* The region scanned in this run: the one whose lines the file is made of.
ScannedRegion(r) == \A k \in 1..Len(lines) : lines[k] \in GuardedLineSet(r)

\* C10 as stated: the guarded region ends at the first line after the start
\* that holds the end text while the guard occurs in the text from the start
\* line through that line itself.
C10_GuardThroughCandidate ==
    Scanned =>
        \A r \in GuardedRegions :
            ScannedRegion(r) => remove_ranges = RangeOf(r, ThroughCandidate)

\* C10 as amended: the guard is looked for in the text from the start line
\* through the line before the candidate; the candidate's own text does not
\* count.
C10_GuardBeforeCandidate ==
    Scanned =>
        \A r \in GuardedRegions :
            ScannedRegion(r) => remove_ranges = RangeOf(r, BeforeCandidate)

\* A region was located whose start line does not hold the guard, after a
\* line that holds both the end text and the guard was passed over.
C10_Witness ==
    /\ pc = "done"
    /\ ScannedRegion(CleanupRegion)
    /\ Len(remove_ranges) = 1
    /\ \E j \in (remove_ranges[1][1] + 1)..(remove_ranges[1][2] - 2) :
          /\ Contains(lines[j + 1], CleanupEnd)
          /\ Contains(lines[j + 1], CleanupGuard)
          /\ ~Contains(TextOf(remove_ranges[1][1], j - 1), CleanupGuard)

\* The marker at s is followed by two blocks closed at c1 and c2 by the same
\* line, the first two lines after s that hold the end text; the guard is in
\* exactly one of the two bodies and nowhere else.
TwoBlocks(r, s, c1, c2) ==
    /\ s = MarkerLine(r.marker)
    /\ s >= 0 /\ s < c1 /\ c1 < c2 /\ c2 <= Len(lines) - 1
    /\ \A j \in (s + 1)..c2 :
          Contains(lines[j + 1], r.endText) <=> j \in {c1, c2}
    /\ lines[c1 + 1] = lines[c2 + 1]
    /\ ~Contains(lines[s + 1], r.guard)
    /\ ~Contains(lines[c1 + 1], r.guard)
    /\ Contains(TextOf(s + 1, c1 - 1), r.guard)
          /= Contains(TextOf(c1 + 1, c2 - 1), r.guard)

\* C7: of two blocks after the cleanup marker that close with the same line,
\* one holding the guard in its body and the other not, no line of the
\* unguarded block is in a located range, whichever block comes first.
C7_OnlyGuardedBlockRemoved ==
    Scanned =>
        \A s, c1, c2 \in 0..(Len(lines) - 1) :
            TwoBlocks(CleanupRegion, s, c1, c2) =>
                IF Contains(TextOf(s + 1, c1 - 1), CleanupGuard)
                THEN \A k \in (c1 + 1)..c2 : ~Covered(k)
                ELSE \A k \in (s + 1)..c1 : ~Covered(k)

\* The Python index of the first line that is the handleFieldBlur
\* declaration, -1 when none.
DeclLine ==
    IF \E k \in 1..Len(lines) : Strip(lines[k]) = FieldBlurLine
    THEN (CHOOSE k \in 1..Len(lines) :
              /\ Strip(lines[k]) = FieldBlurLine
              /\ \A m \in 1..(k - 1) : Strip(lines[m]) /= FieldBlurLine) - 1
    ELSE -1

\* '{' minus '}' over the lines with Python indices a..b.
RECURSIVE Depth(_, _)
Depth(a, b) ==
    IF b < a THEN 0
    ELSE Depth(a, b - 1)
         + Cardinality({k \in 1..Len(lines[b + 1]) : lines[b + 1][k] = "{"})
         - Cardinality({k \in 1..Len(lines[b + 1]) : lines[b + 1][k] = "}"})

\* C8: the handleFieldBlur region runs from the declaration to the first
\* later line at which the count of '{' minus '}' from the declaration is
\* back at zero, that line included; it does not end at a line where the
\* count is still positive (an inner closing brace), and no region is
\* located when the count never returns to zero.
C8_EndsWhereCountReturnsToZero ==
    Scanned =>
        LET s == DeclLine
            zeros == {j \in (s + 1)..(Len(lines) - 1) : Depth(s, j) = 0}
        IN  remove_ranges =
                IF s < 0 \/ zeros = {} THEN <<>> ELSE <<<<s, Least(zeros) + 1>>>>

\* A region was located around a nested brace pair: inside it the count
\* reached two and a line closed a brace before the last line.
C8_Witness ==
    /\ pc = "done"
    /\ Len(remove_ranges) = 1
    /\ \E j, k \in (remove_ranges[1][1] + 1)..(remove_ranges[1][2] - 2) :
          /\ j < k
          /\ Depth(remove_ranges[1][1], j) >= 2
          /\ \E n \in 1..Len(lines[k + 1]) : lines[k + 1][n] = "}"

---------------------------------------------------------------------------
(* Regular expressions, as Python's re matches them: a pattern is a        *)
(* sequence of items tried by backtracking in re's order of preference.    *)

One(cls) == [kind |-> "one", cls |-> cls, sub |-> <<>>]
Star(cls) == [kind |-> "star", cls |-> cls, sub |-> <<>>]          \* x*
LazyStar(cls) == [kind |-> "lazy_star", cls |-> cls, sub |-> <<>>] \* x*?
LazyPlus(cls) == [kind |-> "lazy_plus", cls |-> cls, sub |-> <<>>] \* x+?
Opt(sub) == [kind |-> "opt", cls |-> {}, sub |-> sub]              \* (...)?

\* The position after the match of pat that starts at pos, the first one in
\* re's order; -1 when pat does not match at pos.
RECURSIVE MatchAt(_, _, _)
MatchAt(pat, text, pos) ==
    IF pat = <<>> THEN pos
    ELSE LET it == Head(pat)
             rest == Tail(pat)
             here == pos <= Len(text) /\ text[pos] \in it.cls
         IN  CASE it.kind = "one" ->
                    IF here THEN MatchAt(rest, text, pos + 1) ELSE -1
               [] it.kind = "star" ->
                    LET more == IF here THEN MatchAt(pat, text, pos + 1) ELSE -1
                    IN  IF more /= -1 THEN more ELSE MatchAt(rest, text, pos)
               [] it.kind = "lazy_star" ->
                    LET none == MatchAt(rest, text, pos)
                    IN  IF none /= -1 THEN none
                        ELSE IF here THEN MatchAt(pat, text, pos + 1)
                        ELSE -1
               [] it.kind = "lazy_plus" ->
                    IF here
                    THEN MatchAt(<<LazyStar(it.cls)>> \o rest, text, pos + 1)
                    ELSE -1
               [] it.kind = "opt" ->
                    LET with == MatchAt(it.sub \o rest, text, pos)
                    IN  IF with /= -1 THEN with ELSE MatchAt(rest, text, pos)

\* regex.search(text) is not None
Search(pat, text) ==
    \E pos \in 1..(Len(text) + 1) : MatchAt(pat, text, pos) /= -1

---------------------------------------------------------------------------
(* migrate_app_js_to_ts.py *)

\* The characters of a file's content: '<', '/', '>', a letter, a digit, a
\* blank; and the two forms of the banner, each one token.
Letter == {"A"}
Digit == {"1"}
Alnum == Letter \cup Digit
BannerLine == "// @ts-nocheck"
BannerBlock == "/* @ts-nocheck"
Chars == {"<", "/", ">", " ", "\n", BannerLine, BannerBlock} \cup Alnum
NotGt == Chars \ {">"}

FORCE_TSX_SEGMENTS == {"components", "screens", "templates"}

\* </\s*[A-Za-z][A-Za-z0-9]*(\s|>)
JSX_CLOSING ==
    <<One({"<"}), One({"/"}), Star(Whitespace), One(Letter), Star(Alnum),
      One(Whitespace \cup {">"})>>

\* <\s*[A-Za-z][A-Za-z0-9]*(\s[^>]*?)?/>
JSX_SELF_CLOSING ==
    <<One({"<"}), Star(Whitespace), One(Letter), Star(Alnum),
      Opt(<<One(Whitespace), LazyStar(NotGt)>>), One({"/"}), One({">"})>>

\* <\s*[A-Za-z][A-Za-z0-9]*\s[^>]*>
JSX_OPENING ==
    <<One({"<"}), Star(Whitespace), One(Letter), Star(Alnum),
      One(Whitespace), Star(NotGt), One({">"})>>

JSX_SNIPPETS == <<JSX_CLOSING, JSX_SELF_CLOSING, JSX_OPENING>>

TS_NOCHECK_BANNER == <<BannerLine, "\n", "\n">>

\* A path under APP_ROOT: the directories from APP_ROOT down, the file's
\* stem and its suffix.  The directories, in the order sorted() puts them.
DirSeq == << <<>>, <<"components">>, <<"utils">>, <<"utils", "screens">> >>

\* Every *.js path of the model, sorted.
JsPaths ==
    [n \in 1..(Len(DirSeq) * MaxStems) |->
        [dir |-> DirSeq[((n - 1) \div MaxStems) + 1],
         stem |-> ToString(((n - 1) % MaxStems) + 1),
         ext |-> ".js"]]

\* sorted(APP_ROOT.rglob("*.js"))
gather_js_files(fsys) == SelectSeq(JsPaths, LAMBDA p : p \in DOMAIN fsys)

\* The file name ends in ".js" and is none of the segments: the directories
\* decide.
should_force_tsx_parent(path) ==
    path.dir /= <<>> /\ path.dir[1] \in FORCE_TSX_SEGMENTS
should_force_tsx(path) ==
    \E k \in 1..Len(path.dir) : path.dir[k] \in FORCE_TSX_SEGMENTS

contains_jsx(text) ==
    \E k \in 1..Len(JSX_SNIPPETS) : Search(JSX_SNIPPETS[k], text)

target_extension(path, text) ==
    IF should_force_tsx(path) THEN ".tsx"
    ELSE IF contains_jsx(text) THEN ".tsx"
    ELSE ".ts"

StartsWith(text, tok) == text /= <<>> /\ Head(text) = tok

ensure_banner(text) ==
    LET stripped == LStrip(text)
    IN  IF StartsWith(stripped, BannerLine) \/ StartsWith(stripped, BannerBlock)
        THEN text
        ELSE TS_NOCHECK_BANNER \o text

with_suffix(path, suffix) == [path EXCEPT !.ext = suffix]

None == <<>>

\* path.write_text(text) and path.unlink()
write_text(fsys, path, text) ==
    [p \in DOMAIN fsys \cup {path} |-> IF p = path THEN text ELSE fsys[p]]
unlink(fsys, path) == [p \in DOMAIN fsys \ {path} |-> fsys[p]]

\* convert_file without the check of the target.
convert_file_overwriting(fsys, path, dry) ==
    LET text == fsys[path]
        new_path == with_suffix(path, target_extension(path, text))
    IN  IF dry
        THEN [fs |-> fsys, result |-> <<path, new_path>>]
        ELSE [fs |-> unlink(write_text(fsys, new_path, ensure_banner(text)), path),
              result |-> <<path, new_path>>]

\* convert_file without the early return of a dry run.
convert_file_writing(fsys, path, dry) ==
    LET text == fsys[path]
        new_path == with_suffix(path, target_extension(path, text))
    IN  IF new_path \in DOMAIN fsys
        THEN [fs |-> fsys, result |-> None]
        ELSE [fs |-> unlink(write_text(fsys, new_path, ensure_banner(text)), path),
              result |-> <<path, new_path>>]

\* convert_file: the tree it leaves and what it returns.
convert_file(fsys, path, dry) ==
    LET text == fsys[path]
        new_suffix == target_extension(path, text)
        new_path == with_suffix(path, new_suffix)
        updated_text == ensure_banner(text)
    IN  IF new_path \in DOMAIN fsys
        THEN [fs |-> fsys, result |-> None]
        ELSE IF dry
        THEN [fs |-> fsys, result |-> <<path, new_path>>]
        ELSE [fs |-> unlink(write_text(fsys, new_path, updated_text), path),
              result |-> <<path, new_path>>]

\* if not APP_ROOT.exists(): return 1
MainNoAppRoot ==
    /\ mpc = "start"
    /\ ~app_root
    /\ mpc' = "exit1"
    /\ UNCHANGED <<fs, fs0, queue, idx, conversions, skipped, dry_run, app_root,
                   results>>
    /\ UNCHANGED exVars /\ UNCHANGED rwVars

\* conversions = 0; skipped = 0; for js_file in gather_js_files():
MainStart ==
    /\ mpc = "start"
    /\ app_root
    /\ queue' = gather_js_files(fs)
    /\ idx' = 0 /\ conversions' = 0 /\ skipped' = 0
    /\ mpc' = "loop"
    /\ UNCHANGED <<fs, fs0, dry_run, app_root, results>>
    /\ UNCHANGED exVars /\ UNCHANGED rwVars

\* One iteration of main's for loop.
MainLoopStep ==
    /\ mpc = "loop"
    /\ idx < Len(queue)
    /\ LET js_file == queue[idx + 1]
       IN  IF js_file.ext /= ".js"
           THEN UNCHANGED <<fs, results, skipped, conversions>>
           ELSE LET r == convert_file(fs, js_file, dry_run)
                IN  /\ fs' = r.fs
                    /\ results' = Append(results, r.result)
                    /\ IF r.result = None
                       THEN skipped' = skipped + 1 /\ conversions' = conversions
                       ELSE conversions' = conversions + 1 /\ skipped' = skipped
    /\ idx' = idx + 1
    /\ UNCHANGED <<fs0, queue, dry_run, app_root, mpc>>
    /\ UNCHANGED exVars /\ UNCHANGED rwVars

\* The summary; return 0
MainEnd ==
    /\ mpc = "loop"
    /\ idx >= Len(queue)
    /\ mpc' = "exit0"
    /\ UNCHANGED <<fs, fs0, queue, idx, conversions, skipped, dry_run, app_root,
                   results>>
    /\ UNCHANGED exVars /\ UNCHANGED rwVars

NextMain == MainNoAppRoot \/ MainStart \/ MainLoopStep \/ MainEnd

\* The start of main() on the tree `tree`.
InitMain(tree) ==
    /\ fs = tree /\ fs0 = tree
    /\ queue = <<>> /\ idx = 0 /\ conversions = 0 /\ skipped = 0
    /\ results = <<>> /\ mpc = "start"
    /\ ExIdle /\ RwIdle

\* The contents of the files of the renamer's trees: plain code, and markup
\* under a banner.
PlainText == <<"A">>
MarkupText == <<BannerLine, "\n", "<", "A", "/", ">">>
OldText == <<"1">>

RenameDirs == {<<"components">>, <<"utils">>}
RenameSlots ==
    {[dir |-> d, stem |-> ToString(n)] : d \in RenameDirs, n \in 1..MaxStems}

\* A tree: in each directory and for each stem, a .js file (or none) and
\* possibly a .ts and a .tsx file already there.
TreeOf(js, ts, tsx) ==
    LET at(sl, e) == [dir |-> sl.dir, stem |-> sl.stem, ext |-> e]
        present == {at(sl, ".js") : sl \in {x \in RenameSlots : js[x] /= None}}
                   \cup {at(sl, ".ts") : sl \in {x \in RenameSlots : ts[x]}}
                   \cup {at(sl, ".tsx") : sl \in {x \in RenameSlots : tsx[x]}}
    IN  [p \in present |->
            IF p.ext = ".js" THEN js[[dir |-> p.dir, stem |-> p.stem]]
            ELSE OldText]

InitRename ==
    /\ dry_run \in BOOLEAN
    /\ app_root \in BOOLEAN
    /\ \E js \in [RenameSlots -> {None, PlainText, MarkupText}],
          ts \in [RenameSlots -> BOOLEAN], tsx \in [RenameSlots -> BOOLEAN] :
          InitMain(IF app_root THEN TreeOf(js, ts, tsx) ELSE <<>>)

SpecRename == InitRename /\ [][NextMain]_vars

\* One .js file, of any content over the characters the signatures tell
\* apart, in any directory.
MarkupChars == {"<", "/", ">", " "} \cup Alnum

InitClassify ==
    /\ dry_run \in BOOLEAN
    /\ app_root \in BOOLEAN
    /\ \E d \in 1..Len(DirSeq), text \in SeqsOf(MarkupChars, 0, MaxContentLen) :
          InitMain(IF app_root
                   THEN [p \in {[dir |-> DirSeq[d], stem |-> "1", ext |-> ".js"]}
                            |-> text]
                   ELSE <<>>)

SpecClassify == InitClassify /\ [][NextMain]_vars

---------------------------------------------------------------------------
(* Claims about migrate_app_js_to_ts.py *)

\* The path convert_file computes for the file the loop is at.
TargetOfNext ==
    with_suffix(queue[idx + 1], target_extension(queue[idx + 1], fs[queue[idx + 1]]))

AtCollision ==
    /\ mpc = "loop"
    /\ idx < Len(queue)
    /\ TargetOfNext \in DOMAIN fs

\* C3: a call of convert_file on a file whose target path exists changes no
\* file (the source keeps its content, the target is not overwritten),
\* returns None, is counted as skipped, and the loop goes on to the next
\* file.
C3_CollisionIsSkipped ==
    [][AtCollision =>
          /\ fs' = fs
          /\ results' = Append(results, None)
          /\ skipped' = skipped + 1
          /\ conversions' = conversions
          /\ idx' = idx + 1
          /\ mpc' = "loop"]_vars

\* In a run that writes, a file was skipped at a collision, source and target
\* are as they were, and the loop has gone on to convert a later file.
C3_Witness ==
    /\ ~dry_run
    /\ skipped >= 1
    /\ \E k \in 1..Len(results) :
          /\ results[k] = None
          /\ queue[k] \in DOMAIN fs
          /\ fs[queue[k]] = fs0[queue[k]]
          /\ \E m \in (k + 1)..Len(results) : results[m] /= None

\* C4: during and after a dry run the tree is the tree the run started from:
\* the same paths with the same contents.
C4_DryRunChangesNothing == dry_run => fs = fs0

\* A dry run is over on a tree with a convertible and a colliding file.
C4_Witness ==
    /\ dry_run
    /\ mpc = "exit0"
    /\ conversions >= 1
    /\ skipped >= 1

\* The three markup signatures, position by position.
IsName(t, a, b) ==
    /\ 1 <= a /\ a <= b /\ b <= Len(t)
    /\ t[a] \in Letter
    /\ \A k \in (a + 1)..b : t[k] \in Alnum

AllIn(t, a, b, S) == \A k \in a..b : t[k] \in S

Positions(t) == 1..Len(t)

\* "</", blanks, a name, then a blank or ">"
HasClosingTag(t) ==
    \E p, a, b \in Positions(t) :
        /\ t[p] = "<" /\ p + 1 <= Len(t) /\ t[p + 1] = "/"
        /\ p + 2 <= a /\ AllIn(t, p + 2, a - 1, Whitespace)
        /\ IsName(t, a, b)
        /\ b + 1 <= Len(t) /\ t[b + 1] \in Whitespace \cup {">"}

\* "<", blanks, a name, then "/>" at once or after a blank and any text
\* without ">"
HasSelfClosingTag(t) ==
    \E p, a, b, e \in Positions(t) :
        /\ t[p] = "<"
        /\ p + 1 <= a /\ AllIn(t, p + 1, a - 1, Whitespace)
        /\ IsName(t, a, b)
        /\ b < e /\ t[e] = "/" /\ e + 1 <= Len(t) /\ t[e + 1] = ">"
        /\ \/ e = b + 1
           \/ t[b + 1] \in Whitespace /\ AllIn(t, b + 2, e - 1, Chars \ {">"})

\* "<", blanks, a name, a blank, any text without ">", then ">"
HasOpeningTagWithProps(t) ==
    \E p, a, b, e \in Positions(t) :
        /\ t[p] = "<"
        /\ p + 1 <= a /\ AllIn(t, p + 1, a - 1, Whitespace)
        /\ IsName(t, a, b)
        /\ b + 1 < e /\ t[b + 1] \in Whitespace
        /\ AllIn(t, b + 2, e - 1, Chars \ {">"})
        /\ t[e] = ">"

InForcedDirectory(path) ==
    \E k \in 1..Len(path.dir) :
        path.dir[k] \in {"components", "screens", "templates"}

\* C9: every file convert_file handles gets ".tsx" when one of its
\* directories is components, screens or templates, whatever its content;
\* otherwise ".tsx" when its content holds one of the three markup
\* signatures; otherwise ".ts".
C9_ExtensionFollowsPriority ==
    \A k \in 1..Len(results) :
        results[k] /= None =>
            LET path == results[k][1]
                text == fs0[path]
            IN  results[k][2].ext =
                    IF InForcedDirectory(path) THEN ".tsx"
                    ELSE IF \/ HasClosingTag(text)
                            \/ HasSelfClosingTag(text)
                            \/ HasOpeningTagWithProps(text)
                         THEN ".tsx"
                    ELSE ".ts"

\* A file outside the forced directories was given ".tsx" for an opening tag
\* with props, its only signature; the file is now there under that name.
C9_Witness ==
    /\ ~dry_run
    /\ \E k \in 1..Len(results) :
          /\ results[k] /= None
          /\ ~InForcedDirectory(results[k][1])
          /\ HasOpeningTagWithProps(fs0[results[k][1]])
          /\ ~HasClosingTag(fs0[results[k][1]])
          /\ ~HasSelfClosingTag(fs0[results[k][1]])
          /\ results[k][2].ext = ".tsx"
          /\ results[k][2] \in DOMAIN fs

---------------------------------------------------------------------------
(* remove_js_import_extensions.py *)

\* The tokens of a file's content: keywords with the blanks the patterns ask
\* for around them, the suffix, and single characters.
Import == "import "
From == " from "
Require == "require("
DynImport == "import("
Js == ".js"
Quotes == {"'", "\""}
Tokens == {Import, From, Require, DynImport, Js, "a", "x", "?", ";", ")"} \cup Quotes
PathChars == Tokens \ (Quotes \cup {"?"})      \* [^'"?]
NotSemicolon == Tokens \ {";"}                 \* [^;]

\* A pattern with its four groups.
\* (from\s+['"])([^'"?]+?)(\.js)(['"])
IMPORT_RE ==
    [g1 |-> <<One({From}), One(Quotes)>>,
     g2 |-> <<LazyPlus(PathChars)>>,
     g3 |-> <<One({Js})>>,
     g4 |-> <<One(Quotes)>>]

\* (import\s+[^;]+?\s+from\s+['"])([^'"?]+?)(\.js)(['"])
EXPORT_RE ==
    [g1 |-> <<One({Import}), LazyPlus(NotSemicolon), One({From}), One(Quotes)>>,
     g2 |-> <<LazyPlus(PathChars)>>,
     g3 |-> <<One({Js})>>,
     g4 |-> <<One(Quotes)>>]

\* (require\(\s*['"])([^'"?]+?)(\.js)(['"]\s*\))
REQUIRE_RE ==
    [g1 |-> <<One({Require}), One(Quotes)>>,
     g2 |-> <<LazyPlus(PathChars)>>,
     g3 |-> <<One({Js})>>,
     g4 |-> <<One(Quotes), One({")"})>>]

\* (import\(\s*['"])([^'"?]+?)(\.js)(['"]\s*\))
DYNAMIC_IMPORT_RE ==
    [g1 |-> <<One({DynImport}), One(Quotes)>>,
     g2 |-> <<LazyPlus(PathChars)>>,
     g3 |-> <<One({Js})>>,
     g4 |-> <<One(Quotes), One({")"})>>]

Whole(re) == re.g1 \o re.g2 \o re.g3 \o re.g4

\* strip_suffix on the match text[pos .. e-1]: groups 1, 2 and 4; group 3 is
\* the one token before group 4.
strip_suffix(re, text, pos, e) ==
    SubSeq(text, pos, e - Len(re.g4) - 2) \o SubSeq(text, e - Len(re.g4), e - 1)

\* pattern.subn(strip_suffix, text) from pos on: the matches are taken left to
\* right and do not overlap.
RECURSIVE SubnFrom(_, _, _)
SubnFrom(re, text, pos) ==
    IF pos > Len(text) THEN [text |-> <<>>, count |-> 0]
    ELSE LET e == MatchAt(Whole(re), text, pos)
         IN  IF e = -1
             THEN LET r == SubnFrom(re, text, pos + 1)
                  IN  [text |-> <<text[pos]>> \o r.text, count |-> r.count]
             ELSE LET r == SubnFrom(re, text, e)
                  IN  [text |-> strip_suffix(re, text, pos, e) \o r.text,
                       count |-> r.count + 1]

subn(re, text) == SubnFrom(re, text, 1)

\* for pattern in (...): new_text, count = pattern.subn(...); if count: ...
RECURSIVE ApplyPatterns(_, _, _)
ApplyPatterns(patterns, text, updated) ==
    IF patterns = <<>> THEN [text |-> text, updated |-> updated]
    ELSE LET r == subn(Head(patterns), text)
         IN  IF r.count > 0
             THEN ApplyPatterns(Tail(patterns), r.text, TRUE)
             ELSE ApplyPatterns(Tail(patterns), text, updated)

\* if ".js'" not in text and '.js"' not in text: return False
FastPathSkip(text) ==
    ~Contains(text, <<Js, "'">>) /\ ~Contains(text, <<Js, "\"">>)

\* process_file: the text it leaves in the file, what it returns, and
\* whether it wrote the file.
process_file(text) ==
    IF FastPathSkip(text)
    THEN [text |-> text, updated |-> FALSE, wrote |-> FALSE]
    ELSE LET r == ApplyPatterns(
                      <<IMPORT_RE, EXPORT_RE, REQUIRE_RE, DYNAMIC_IMPORT_RE>>,
                      text, FALSE)
         IN  [text |-> IF r.updated THEN r.text ELSE text,
              updated |-> r.updated,
              wrote |-> r.updated]

\* The bound on the runs over one file.
MaxRuns == 2

\* One run of process_file over the file.
ProcessFile ==
    /\ runs < MaxRuns
    /\ ftext0 /= <<>>
    /\ LET r == process_file(ftext)
       IN  /\ ftext' = r.text
           /\ ret' = r.updated
           /\ writes' = Append(writes, r.wrote)
    /\ runs' = runs + 1
    /\ UNCHANGED ftext0
    /\ UNCHANGED exVars /\ UNCHANGED rnVars

\* The statements of a file: what leads to the string, the string in quotes
\* of one kind, what follows it.
Leads ==
    {<<Import, "x", From>>, <<"x", From>>, <<Require>>, <<DynImport>>, <<"x">>}
Follows == {<<")">>, <<";">>}
Statements(q) ==
    {l \o <<q>> \o path \o <<q>> \o f :
        l \in Leads, path \in SeqsOf({"a", Js, "?"}, 1, MaxPathLen), f \in Follows}

RECURSIVE Flatten(_)
Flatten(ss) == IF ss = <<>> THEN <<>> ELSE Head(ss) \o Flatten(Tail(ss))

InitRewrite ==
    /\ \E q \in Quotes :
         \E ss \in SeqsOf(Statements(q), 1, MaxStatements) : ftext = Flatten(ss)
    /\ ftext0 = ftext
    /\ runs = 0 /\ ret = FALSE /\ writes = <<>>
    /\ ExIdle /\ RnIdle

SpecRewrite == InitRewrite /\ [][ProcessFile]_vars

---------------------------------------------------------------------------
(* Claims about remove_js_import_extensions.py *)

\* The positions of the suffix in the references of shape re in text: the
\* group 3 of each of re's matches.
RECURSIVE SuffixesFrom(_, _, _)
SuffixesFrom(re, text, pos) ==
    IF pos > Len(text) THEN {}
    ELSE LET e == MatchAt(Whole(re), text, pos)
         IN  IF e = -1 THEN SuffixesFrom(re, text, pos + 1)
             ELSE {e - Len(re.g4) - 1} \cup SuffixesFrom(re, text, e)

ReferenceSuffixes(text) ==
    SuffixesFrom(IMPORT_RE, text, 1) \cup SuffixesFrom(EXPORT_RE, text, 1)
    \cup SuffixesFrom(REQUIRE_RE, text, 1)
    \cup SuffixesFrom(DYNAMIC_IMPORT_RE, text, 1)

\* text without the tokens at the positions in S.
Without(text, S) ==
    LET keep == {k \in 1..Len(text) : k \notin S}
        RECURSIVE from(_)
        from(k) == IF k > Len(text) THEN <<>>
                   ELSE (IF k \in keep THEN <<text[k]>> ELSE <<>>) \o from(k + 1)
    IN  from(1)

\* C5: after one run the file is its original content with the one ".js"
\* before the closing quote of each reference removed, and nothing else; a
\* reference of both the from shape and the import-from shape loses one
\* suffix, not two.
C5_OneSuffixPerReference ==
    runs = 1 => ftext = Without(ftext0, ReferenceSuffixes(ftext0))

\* C6: a second run over the file the first run left substitutes nothing: it
\* returns False, writes nothing and leaves the file as it is.
C6_SecondRunChangesNothing ==
    runs = 2 => /\ ret = FALSE
                /\ writes[2] = FALSE

===========================================================================
